---- MODULE Spec2Model ----
(***************************************************************************)
(* lambda-gorunner: the bounded-concurrency multi-host SSH fact collector. *)
(* Worker dispatches one processFact goroutine per instance; each takes a  *)
(* slot of the limiter channel, runs GetFacts (dial loop, one session per  *)
(* command, wait loop), writes its own instance and gives the slot back.   *)
(* Worker joins on the WaitGroup and formatResult builds the result table. *)
(*                                                                         *)
(* The remote side (dial outcome of a (user, host) pair, NewSession and    *)
(* Start outcomes, a command's exit status) answers when it is asked; each *)
(* answer is asked for at most once in a run and is kept in the state      *)
(* (attempts, fault, failed), so a run fixes one backend.                  *)
(***************************************************************************)
EXTENDS Integers, Sequences, FiniteSets, TLC

\* ---- bounds of the model ------------------------------------------------
NumTargets == 2      \* instances getInstances can return (0..NumTargets)
MaxAddrs == 2        \* addresses of an instance (private, public)
NumCreds == 2        \* entries of USERS
NumLabels == 2       \* labels of FACTS
MaxSessionsCap == 2  \* largest MAX_SESSIONS value tried

Tasks == 1..NumTargets
Labels == 1..NumLabels

\* ---- text ---------------------------------------------------------------
\* A text is a sequence of one-character strings.
WhiteSpace == {" ", "\n", "\t"}

RECURSIVE TrimLeft(_)
TrimLeft(s) ==
  IF s # <<>> /\ Head(s) \in WhiteSpace THEN TrimLeft(Tail(s)) ELSE s

RECURSIVE TrimRight(_)
TrimRight(s) ==
  IF s # <<>> /\ s[Len(s)] \in WhiteSpace
  THEN TrimRight(SubSeq(s, 1, Len(s) - 1))
  ELSE s

\* strings.TrimSpace
TrimSpace(s) == TrimRight(TrimLeft(s))

HostChar == <<"a", "b", "c", "d">>
LabelChar == <<"k", "r", "h", "u">>

\* What command l writes to its stdout on instance t: fixed per (t, l); some
\* outputs carry leading and trailing white space, and inner white space.
Stdout(t, l) ==
  IF (t + l) % 2 = 0
  THEN <<" ", HostChar[t], " ", LabelChar[l], "\n">>
  ELSE <<HostChar[t], LabelChar[l]>>

\* ---- values -------------------------------------------------------------
\* users and addrs are the users and the addresses the error's message names
NoErr == [kind |-> "nil", labels |-> <<>>, users |-> <<>>, addrs |-> <<>>]
ErrNoHosts ==
  [kind |-> "nohosts", labels |-> <<>>, users |-> <<>>, addrs |-> <<>>]
\* "Can't connect to host with addresses: %v", hostAddrs
ErrConnect(as) ==
  [kind |-> "connect", labels |-> <<>>, users |-> <<>>, addrs |-> as]
\* the NewSession error dropped: GetFacts returns nil, nil
ErrSessionDropped(c) == NoErr

\* "Can't allocate session for "+conStr, where c is conStr = <<user, host>>
ErrSession(c) ==
  [kind |-> "session", labels |-> <<>>, users |-> <<c[1]>>, addrs |-> <<c[2]>>]
\* "Can't start command: '"+cmd+"' at "+conStr
ErrStart(c) ==
  [kind |-> "start", labels |-> <<>>, users |-> <<c[1]>>, addrs |-> <<c[2]>>]
\* combErr: the chain of failed labels, in the order they were wrapped
ErrCollect(ls, c) ==
  [kind |-> "collect", labels |-> ls, users |-> <<c[1]>>, addrs |-> <<c[2]>>]

EmptyMap == [l \in {} |-> <<>>]
\* a Go map[string]string value: nil, or a map over some labels
NilFacts == [isNil |-> TRUE, m |-> EmptyMap]
MapFacts(m) == [isNil |-> FALSE, m |-> m]

\* only the first entry is ever stored
MapPutFirstOnly(m, l, v) ==
  IF DOMAIN m = {} THEN [x \in {l} |-> v] ELSE m

\* m with m[l] = v added
MapPut(m, l, v) ==
  [x \in (DOMAIN m) \cup {l} |-> IF x = l THEN v ELSE m[x]]

AddrLists == {[j \in 1..n |-> j] : n \in 0..MaxAddrs}

VARIABLES
  wpc,          \* Worker's position
  workerErr,    \* the error Worker returns ("" none)
  maxSessions,  \* strconv.Atoi(MAX_SESSIONS)
  auths,        \* len(auths): the users of USERS, tried in order 1..auths
  instances,    \* []*InstanceInfo: id, addrs, facts, err
  dispatched,   \* how many go statements Worker has executed
  limiter,      \* the buffered channel: the job ids in it
  wg,           \* the WaitGroup counter
  doneOrder,    \* the job ids in the order their goroutines ended
  resTable,     \* what formatResult returned
  pc,           \* each processFact goroutine's position
  ai,           \* GetFacts: index i into auths
  hi,           \* GetFacts: position in hostAddrs
  attempts,     \* the ssh.Dial calls made, in order, with their outcome
  conStr,       \* GetFacts: conStr (<<>> is "")
  client,       \* the ssh connection: "none", "open", "closed"
  closes,       \* how often client.Close ran
  sess,         \* commands: per label "none", "running", "exited", "closed"
  failed,       \* labels whose session.Wait returned an error
  fault,        \* the NewSession or Start that failed: [kind, label]
  cur,          \* wait loop: the label being waited on (0 none)
  waited,       \* wait loop: labels already waited on
  facts,        \* GetFacts: the local facts map
  combErr       \* GetFacts: labels wrapped into combErr, in order

vars == <<wpc, workerErr, maxSessions, auths, instances, dispatched, limiter, wg,
          doneOrder, resTable, pc, ai, hi, attempts, conStr, client, closes, sess,
          failed, fault, cur, waited, facts, combErr>>

workerVars == <<wpc, workerErr, maxSessions, auths, dispatched, resTable>>
dialVars == <<ai, hi, attempts, conStr>>
cmdVars == <<sess, failed, fault, cur, waited, facts, combErr>>

NoFault == [kind |-> "none", label |-> 0]

Init ==
  /\ wpc = "setup"
  /\ workerErr = ""
  /\ maxSessions = 0
  /\ auths = 0
  /\ instances = <<>>
  /\ dispatched = 0
  /\ limiter = <<>>
  /\ wg = 0
  /\ doneOrder = <<>>
  /\ resTable = <<>>
  /\ pc = [t \in Tasks |-> "idle"]
  /\ ai = [t \in Tasks |-> 1]
  /\ hi = [t \in Tasks |-> 1]
  /\ attempts = [t \in Tasks |-> <<>>]
  /\ conStr = [t \in Tasks |-> <<>>]
  /\ client = [t \in Tasks |-> "none"]
  /\ closes = [t \in Tasks |-> 0]
  /\ sess = [t \in Tasks |-> [l \in Labels |-> "none"]]
  /\ failed = [t \in Tasks |-> {}]
  /\ fault = [t \in Tasks |-> NoFault]
  /\ cur = [t \in Tasks |-> 0]
  /\ waited = [t \in Tasks |-> {}]
  /\ facts = [t \in Tasks |-> EmptyMap]
  /\ combErr = [t \in Tasks |-> <<>>]


\* ---- Worker --------------------------------------------------------------
\* the error is kept but Worker goes on, with one instance and one slot
WorkerConfigErrorIgnored(e) ==
  /\ wpc = "setup"
  /\ wpc' = "dispatch"
  /\ workerErr' = e
  /\ auths' = NumCreds
  /\ maxSessions' = 1
  /\ instances' = <<[id |-> 1, addrs |-> <<1>>, facts |-> NilFacts,
                     err |-> NoErr]>>
  /\ UNCHANGED <<dispatched, limiter, wg, doneOrder, resTable, pc, client,
                 closes>>
  /\ UNCHANGED <<dialVars, cmdVars>>

\* sshAuthSetup, json.Unmarshal(FACTS) or getInstances fails: Worker returns
\* the error before anything is dispatched.
WorkerConfigError(e) ==
  /\ wpc = "setup"
  /\ wpc' = "failed"
  /\ workerErr' = e
  /\ UNCHANGED <<maxSessions, auths, instances, dispatched, limiter, wg,
                 doneOrder, resTable, pc, client, closes>>
  /\ UNCHANGED <<dialVars, cmdVars>>

\* The configuration succeeded: getInstances returned n instances with their
\* address lists (facts and err are the zero values), MAX_SESSIONS parsed to
\* ms (0 when it does not parse), sshAuthSetup made one ClientConfig per
\* entry of USERS (strings.Split never returns an empty list).
WorkerSetup(n, as, ms) ==
  /\ wpc = "setup"
  /\ wpc' = "dispatch"
  /\ auths' = NumCreds
  /\ instances' = [i \in 1..n |->
                    [id |-> i, addrs |-> as[i], facts |-> NilFacts,
                     err |-> NoErr]]
  /\ maxSessions' = ms
  /\ UNCHANGED <<workerErr, dispatched, limiter, wg, doneOrder, resTable, pc,
                 client, closes>>
  /\ UNCHANGED <<dialVars, cmdVars>>

\* One turn of the dispatch loop: wg.Add(1); go processFact(i, ...)
Dispatch ==
  /\ wpc = "dispatch"
  /\ dispatched < Len(instances)
  /\ dispatched' = dispatched + 1
  /\ wg' = wg + 1
  /\ pc' = [pc EXCEPT ![dispatched + 1] = "acquire"]
  /\ UNCHANGED <<wpc, workerErr, maxSessions, auths, instances, limiter,
                 doneOrder, resTable, client, closes>>
  /\ UNCHANGED <<dialVars, cmdVars>>

\* a Wait that returns while one goroutine is still running
WaitReadyEarly(w) == w <= 1

\* wg.Wait() returns when the counter is zero
WaitReady(w) == w = 0

WgWait ==
  /\ wpc = "dispatch"
  /\ dispatched = Len(instances)
  /\ WaitReady(wg)
  /\ wpc' = "format"
  /\ UNCHANGED <<workerErr, maxSessions, auths, instances, dispatched, limiter,
                 wg, doneOrder, resTable, pc, client, closes>>
  /\ UNCHANGED <<dialVars, cmdVars>>

unkRes == <<>>

\* One row of formatResult: every label of factsToCollect when inst.facts is
\* not nil, no label at all when it is nil.
Row(inst) ==
  [InstanceId |-> inst.id,
   IPs |-> inst.addrs,
   Facts |-> IF ~inst.facts.isNil
             THEN [k \in Labels |->
                    IF k \in DOMAIN inst.facts.m THEN inst.facts.m[k]
                    ELSE unkRes]
             ELSE EmptyMap]

\* rows appended in the order the goroutines ended
formatResultByCompletion(insts) ==
  [i \in 1..Len(insts) |->
     Row(insts[IF Len(doneOrder) = Len(insts) THEN doneOrder[i] ELSE i])]

formatResult(insts) == [i \in 1..Len(insts) |-> Row(insts[i])]

FormatResult ==
  /\ wpc = "format"
  /\ resTable' = formatResult(instances)
  /\ wpc' = "returned"
  /\ UNCHANGED <<workerErr, maxSessions, auths, instances, dispatched, limiter,
                 wg, doneOrder, pc, client, closes>>
  /\ UNCHANGED <<dialVars, cmdVars>>

\* ---- processFact ---------------------------------------------------------
\* capacity 0 taken to mean no limit
CanSendZeroUnlimited(ch, c) == Len(ch) < c \/ c = 0

\* a send that lets one goroutine too many through
CanSendOffByOne(ch, c) == Len(ch) <= c

\* a send on a channel of capacity c proceeds when the buffer has room (no
\* goroutine ever receives before it has sent, so capacity 0 never proceeds)
CanSend(ch, c) == Len(ch) < c

\* limiter <- jobID
Acquire(t) ==
  /\ pc[t] = "acquire"
  /\ CanSend(limiter, maxSessions)
  /\ limiter' = Append(limiter, t)
  /\ pc' = [pc EXCEPT ![t] = "dial"]
  /\ UNCHANGED <<workerVars, instances, wg, doneOrder, client, closes>>
  /\ UNCHANGED <<dialVars, cmdVars>>

\* a receive that takes two values when there are two
RecvTwice(ch) == IF Len(ch) > 1 THEN Tail(Tail(ch)) ELSE Tail(ch)

\* a receive that leaves the channel as it was: the slot is never given back
RecvNothing(ch) == ch

\* <-limiter takes the oldest value of the channel
Recv(ch) == Tail(ch)

Release(t) ==
  /\ pc[t] = "release"
  /\ limiter # <<>>
  /\ limiter' = Recv(limiter)
  /\ pc' = [pc EXCEPT ![t] = "deferred"]
  /\ UNCHANGED <<workerVars, instances, wg, doneOrder, client, closes>>
  /\ UNCHANGED <<dialVars, cmdVars>>

\* defer wg.Done()
Done(t) ==
  /\ pc[t] = "deferred"
  /\ wg' = wg - 1
  /\ doneOrder' = Append(doneOrder, t)
  /\ pc' = [pc EXCEPT ![t] = "finished"]
  /\ UNCHANGED <<workerVars, instances, limiter, client, closes>>
  /\ UNCHANGED <<dialVars, cmdVars>>

\* the deferred client.Close() that is never registered
ClientCloseForgotten(c) == c

\* defer client.Close(), registered once the dial loop has connected: an open
\* connection is closed when GetFacts returns
ClientClose(c) == IF c = "open" THEN "closed" ELSE c

\* every goroutine holding the first instance
InstanceOfFirst(t) == 1

\* go processFact(i, ..., instances[i]): job t is given the t-th instance
InstanceOf(t) == t

\* GetFacts returns (f, e) and processFact stores both in its instance; the
\* deferred client.Close(), when registered, runs first and ends the
\* connection's sessions. The locals of the call (i, conStr, commands, facts,
\* combErr) are gone with it.
ReturnTo(t, f, e) ==
  /\ instances' = [instances EXCEPT ![InstanceOf(t)].facts = f,
                                     ![InstanceOf(t)].err = e]
  /\ pc' = [pc EXCEPT ![t] = "release"]
  /\ client' = [client EXCEPT ![t] = ClientClose(@)]
  /\ closes' = [closes EXCEPT ![t] =
                 IF ClientClose(client[t]) # client[t] THEN @ + 1 ELSE @]
  /\ ai' = [ai EXCEPT ![t] = 1]
  /\ hi' = [hi EXCEPT ![t] = 1]
  /\ conStr' = [conStr EXCEPT ![t] = <<>>]
  /\ sess' = [sess EXCEPT ![t] = [l \in Labels |-> "none"]]
  /\ cur' = [cur EXCEPT ![t] = 0]
  /\ waited' = [waited EXCEPT ![t] = {}]
  /\ facts' = [facts EXCEPT ![t] = EmptyMap]
  /\ combErr' = [combErr EXCEPT ![t] = <<>>]

\* ---- GetFacts: the dial loop ---------------------------------------------
\* len(hostAddrs) == 0
GetFactsNoHosts(t) ==
  /\ pc[t] = "dial"
  /\ Len(instances[t].addrs) = 0
  /\ ReturnTo(t, NilFacts, ErrNoHosts)
  /\ UNCHANGED <<workerVars, limiter, wg, doneOrder, attempts, failed, fault>>

\* a loop that tests its condition after the first turn only
DialMoreAtLeastOnce(i, c) == (i <= auths \/ i = 1) /\ c = <<>>

\* the outer loop without the conStr test: break leaves the inner loop only
DialMoreNoStop(i, c) == i <= auths

\* the outer loop's condition: i < len(auths) && conStr == ""
DialMore(i, c) == i <= auths /\ c = <<>>

\* the inner loop left after its first address
DialNextFirstAddress(i, h, n) == <<i + 1, 1>>

\* the loop indices after a failed attempt at (i, h) over n addresses
DialNext(i, h, n) == IF h < n THEN <<i, h + 1>> ELSE <<i + 1, 1>>

\* One ssh.Dial of auths[i] at the next host; ok is the backend's answer.
Dial(t, ok) ==
  /\ pc[t] = "dial"
  /\ Len(instances[t].addrs) > 0
  /\ DialMore(ai[t], conStr[t])
  /\ LET host == instances[t].addrs[hi[t]]
         nxt == DialNext(ai[t], hi[t], Len(instances[t].addrs))
         ai2 == IF ok THEN ai[t] + 1 ELSE nxt[1]
         con2 == IF ok THEN <<ai[t], host>> ELSE conStr[t]
     IN /\ attempts' = [attempts EXCEPT ![t] =
                         Append(@, [user |-> ai[t], host |-> host, ok |-> ok])]
        /\ conStr' = [conStr EXCEPT ![t] = con2]
        /\ ai' = [ai EXCEPT ![t] = ai2]
        /\ hi' = [hi EXCEPT ![t] = IF ok THEN 1 ELSE nxt[2]]
        /\ client' = [client EXCEPT ![t] = IF ok THEN "open" ELSE @]
        /\ pc' = [pc EXCEPT ![t] =
                   IF ~DialMore(ai2, con2) /\ con2 # <<>> THEN "open" ELSE @]
  /\ UNCHANGED <<workerVars, instances, limiter, wg, doneOrder, closes>>
  /\ UNCHANGED cmdVars

\* conStr == "" after the loops
ConnectFailed(t) ==
  /\ pc[t] = "dial"
  /\ Len(instances[t].addrs) > 0
  /\ ~DialMore(ai[t], conStr[t])
  /\ conStr[t] = <<>>
  /\ ReturnTo(t, NilFacts, ErrConnect(instances[t].addrs))
  /\ UNCHANGED <<workerVars, limiter, wg, doneOrder, attempts, failed, fault>>

\* ---- GetFacts: one session per command -----------------------------------
\* the wait loop entered after the first started command
AllStartedAfterFirst(ss, l) == TRUE

\* the loop over factsToCollect ends when l was the last label without a
\* session
AllStarted(ss, l) == \A x \in Labels \ {l} : ss[x] # "none"

\* One turn of the loop over factsToCollect (Go visits the keys in any
\* order): client.NewSession, then session.Start(cmd). r is the backend's
\* answer: "ok", "nosession" (NewSession failed) or "nostart" (Start of the
\* command of l failed); both failures return at once. After the last label
\* the wait loop starts at some label w.
OpenSession(t, l, r, w) ==
  /\ pc[t] = "open"
  /\ sess[t][l] = "none"
  /\ \/ /\ r = "nosession"
        /\ fault' = [fault EXCEPT ![t] = [kind |-> r, label |-> 0]]
        /\ ReturnTo(t, NilFacts, ErrSession(conStr[t]))
     \/ /\ r = "nostart"
        /\ fault' = [fault EXCEPT ![t] = [kind |-> r, label |-> l]]
        /\ ReturnTo(t, NilFacts, ErrStart(conStr[t]))
     \/ /\ r = "ok"
        /\ sess' = [sess EXCEPT ![t][l] = "running"]
        /\ IF AllStarted(sess[t], l)
           THEN /\ pc' = [pc EXCEPT ![t] = "wait"]
                /\ cur' = [cur EXCEPT ![t] = w]
           ELSE /\ UNCHANGED <<pc, cur>>
        /\ UNCHANGED <<fault, instances, client, closes, ai, hi, conStr,
                       waited, facts, combErr>>
  /\ UNCHANGED <<workerVars, limiter, wg, doneOrder, attempts, failed>>

\* The remote command of a started session exits.
CommandExit(t, l) ==
  /\ sess[t][l] = "running"
  /\ sess' = [sess EXCEPT ![t][l] = "exited"]
  /\ UNCHANGED <<workerVars, instances, limiter, wg, doneOrder, pc, client,
                 closes, failed, fault, cur, waited, facts, combErr>>
  /\ UNCHANGED dialVars

\* a fresh map at every success: the facts stored before are lost
StoreFactFresh(m, t, name) == MapPut(EmptyMap, name, TrimSpace(Stdout(t, name)))

\* the facts map after a successful Wait on name
StoreFact(m, t, name) == MapPut(m, name, TrimSpace(Stdout(t, name)))

\* One turn of the loop over commands: c.session.Wait() returns once the
\* command has exited, with its exit status e ("ok", or "fail" for a
\* non-zero exit); a failure is wrapped into combErr, a success stores the
\* trimmed stdout; c.session.Close(). The loop goes on at some label w not
\* yet visited.
SessionWait(t, e, w) ==
  /\ pc[t] = "wait"
  /\ sess[t][cur[t]] = "exited"
  /\ LET name == cur[t]
         rest == Labels \ (waited[t] \cup {name})
     IN /\ IF e = "fail"
           THEN /\ combErr' = [combErr EXCEPT ![t] = Append(@, name)]
                /\ failed' = [failed EXCEPT ![t] = @ \cup {name}]
                /\ UNCHANGED facts
           ELSE /\ facts' = [facts EXCEPT ![t] = StoreFact(@, t, name)]
                /\ UNCHANGED <<combErr, failed>>
        /\ sess' = [sess EXCEPT ![t][name] = "closed"]
        /\ waited' = [waited EXCEPT ![t] = @ \cup {name}]
        /\ IF rest = {}
           THEN /\ cur' = [cur EXCEPT ![t] = 0]
                /\ pc' = [pc EXCEPT ![t] = "return"]
           ELSE /\ w \in rest
                /\ cur' = [cur EXCEPT ![t] = w]
                /\ UNCHANGED pc
  /\ UNCHANGED <<workerVars, instances, limiter, wg, doneOrder, client, closes,
                 fault>>
  /\ UNCHANGED dialVars

\* if !hasErrors { combErr = nil }; return facts, combErr
GetFactsReturn(t) ==
  /\ pc[t] = "return"
  /\ ReturnTo(t, MapFacts(facts[t]),
              IF combErr[t] = <<>> THEN NoErr
              ELSE ErrCollect(combErr[t], conStr[t]))
  /\ UNCHANGED <<workerVars, limiter, wg, doneOrder, attempts, failed, fault>>

\* ---- Handler -------------------------------------------------------------
\* what Handler hands back once Worker has ended: the zero Response next to
\* Worker's error, or status 200 with the table as body
HandlerResponse ==
  IF wpc = "returned"
  THEN [StatusCode |-> 200, Body |-> resTable]
  ELSE [StatusCode |-> 0, Body |-> <<>>]

\* ---- the system ----------------------------------------------------------
ConfigErrors == {"auth", "facts", "instances"}

Setup ==
  \/ \E e \in ConfigErrors : WorkerConfigError(e)
  \/ \E n \in 0..NumTargets, ms \in 0..MaxSessionsCap :
       \E as \in [1..n -> AddrLists] : WorkerSetup(n, as, ms)

Next ==
  \/ Setup
  \/ Dispatch
  \/ WgWait
  \/ FormatResult
  \/ \E t \in Tasks : Acquire(t)
  \/ \E t \in Tasks : GetFactsNoHosts(t)
  \/ \E t \in Tasks, ok \in BOOLEAN : Dial(t, ok)
  \/ \E t \in Tasks : ConnectFailed(t)
  \/ \E t \in Tasks, l \in Labels, w \in Labels :
       \E r \in {"ok", "nosession", "nostart"} : OpenSession(t, l, r, w)
  \/ \E t \in Tasks, l \in Labels : CommandExit(t, l)
  \/ \E t \in Tasks, e \in {"ok", "fail"}, w \in Labels : SessionWait(t, e, w)
  \/ \E t \in Tasks : GetFactsReturn(t)
  \/ \E t \in Tasks : Release(t)
  \/ \E t \in Tasks : Done(t)

Spec == Init /\ [][Next]_vars


\* The steps of Worker's own goroutine after the configuration
WorkerStep == Dispatch \/ WgWait \/ FormatResult

\* The steps of the processFact goroutine of instance t
TaskStep(t) ==
  \/ Acquire(t)
  \/ GetFactsNoHosts(t)
  \/ \E ok \in BOOLEAN : Dial(t, ok)
  \/ ConnectFailed(t)
  \/ \E l \in Labels, w \in Labels :
       \E r \in {"ok", "nosession", "nostart"} : OpenSession(t, l, r, w)
  \/ \E e \in {"ok", "fail"}, w \in Labels : SessionWait(t, e, w)
  \/ GetFactsReturn(t)
  \/ Release(t)
  \/ Done(t)

\* The remote commands of instance t
RemoteStep(t) == \E l \in Labels : CommandExit(t, l)

\* Every goroutine that can take a step eventually takes one (the Go
\* scheduler runs every runnable goroutine; a dial returns within its
\* timeout), and every started remote command eventually exits.
Fairness ==
  /\ WF_vars(WorkerStep)
  /\ \A t \in Tasks : WF_vars(TaskStep(t)) /\ WF_vars(RemoteStep(t))

FairSpec == Init /\ [][Next]_vars /\ Fairness

\* ---- GetFacts on its own --------------------------------------------------
\* One call GetFacts(hostAddrs, factsToCollect, auths) with any address list
\* and any number of users, the empty list of users included (Worker never
\* passes one): the state is the one of a single goroutine that holds its
\* slot and is about to call GetFacts.
GetFactsInit ==
  /\ wpc = "dispatch"
  /\ workerErr = ""
  /\ maxSessions = 1
  /\ auths \in 0..NumCreds
  /\ \E as \in AddrLists :
       instances = <<[id |-> 1, addrs |-> as, facts |-> NilFacts,
                      err |-> NoErr]>>
  /\ dispatched = 1
  /\ limiter = <<1>>
  /\ wg = 1
  /\ doneOrder = <<>>
  /\ resTable = <<>>
  /\ pc = [t \in Tasks |-> IF t = 1 THEN "dial" ELSE "idle"]
  /\ ai = [t \in Tasks |-> 1]
  /\ hi = [t \in Tasks |-> 1]
  /\ attempts = [t \in Tasks |-> <<>>]
  /\ conStr = [t \in Tasks |-> <<>>]
  /\ client = [t \in Tasks |-> "none"]
  /\ closes = [t \in Tasks |-> 0]
  /\ sess = [t \in Tasks |-> [l \in Labels |-> "none"]]
  /\ failed = [t \in Tasks |-> {}]
  /\ fault = [t \in Tasks |-> NoFault]
  /\ cur = [t \in Tasks |-> 0]
  /\ waited = [t \in Tasks |-> {}]
  /\ facts = [t \in Tasks |-> EmptyMap]
  /\ combErr = [t \in Tasks |-> <<>>]

\* the steps of that call, up to its return
GetFactsNext ==
  \/ GetFactsNoHosts(1)
  \/ \E ok \in BOOLEAN : Dial(1, ok)
  \/ ConnectFailed(1)
  \/ \E l, w \in Labels, r \in {"ok", "nosession", "nostart"} :
       OpenSession(1, l, r, w)
  \/ \E l \in Labels : CommandExit(1, l)
  \/ \E e \in {"ok", "fail"}, w \in Labels : SessionWait(1, e, w)
  \/ GetFactsReturn(1)

GetFactsSpec == GetFactsInit /\ [][GetFactsNext]_vars


\* ---- properties ----------------------------------------------------------
\* the instances Worker was given
Targets == 1..Len(instances)

\* the goroutine holds a slot of the limiter: it is between limiter <- jobID
\* and <-limiter
Active(t) == pc[t] \in {"dial", "open", "wait", "return", "release"}

NumActive == Cardinality({t \in Tasks : Active(t)})

\* the value a row shows for a label that was collected
Collected(t, l) == TrimSpace(Stdout(t, l))

\* C1: in the table formatResult built, every row's Facts has exactly the
\* labels of factsToCollect, whatever the outcome of the row's instance.
C1_EveryRowHasEveryLabel ==
  wpc = "returned" =>
    \A i \in 1..Len(resTable) : DOMAIN resTable[i].Facts = Labels

\* C2: with maxSessions >= 1, at most maxSessions goroutines are between
\* taking a slot of the limiter and giving it back.
C2_ActiveAtMostMaxSessions ==
  maxSessions >= 1 => NumActive <= maxSessions

\* a goroutine is kept out while every slot is taken
C2_Witness ==
  /\ maxSessions >= 1
  /\ NumActive = maxSessions
  /\ \E t \in Tasks : pc[t] = "acquire"
  /\ \E t \in Tasks : pc[t] \in {"open", "wait"}

\* C3: the table has one row per instance and row i is the row of instance
\* i, in whatever order the goroutines ran and ended.
C3_RowsInInputOrder ==
  wpc = "returned" =>
    /\ Len(resTable) = Len(instances)
    /\ \A i \in Targets :
         /\ resTable[i].InstanceId = instances[i].id
         /\ resTable[i].IPs = instances[i].addrs

\* the goroutines ended in the reverse of the input order
C3_Witness ==
  /\ wpc = "returned"
  /\ Len(instances) = NumTargets
  /\ NumTargets >= 2
  /\ doneOrder[1] = NumTargets
  /\ doneOrder[NumTargets] = 1


\* GetFacts has returned for instance t and processFact has stored the result
Returned(t) == pc[t] \in {"release", "deferred", "finished"}

\* the dial loop of t found a connection
Connected(t) == \E j \in 1..Len(attempts[t]) : attempts[t][j].ok

\* t was connected and every session was opened and started
BatchRan(t) == Returned(t) /\ Connected(t) /\ fault[t].kind = "none"

\* C4: for an instance that was connected and whose sessions all started,
\* with F the labels whose Wait failed: the returned facts hold exactly the
\* labels outside F, each with its command's (trimmed) stdout; the returned
\* error is non-nil exactly when F is not empty; the row shows the collected
\* value outside F and the default inside F.
C4_PartialFacts ==
  \A t \in Targets :
    BatchRan(t) =>
      /\ ~instances[t].facts.isNil
      /\ DOMAIN instances[t].facts.m = Labels \ failed[t]
      /\ \A l \in Labels \ failed[t] :
           instances[t].facts.m[l] = Collected(t, l)
      /\ (instances[t].err # NoErr) <=> (failed[t] # {})
      /\ wpc = "returned" =>
           resTable[t].Facts =
             [l \in Labels |-> IF l \in failed[t] THEN unkRes
                               ELSE Collected(t, l)]

\* one command of an instance failed, another succeeded with padded output
C4_Witness ==
  /\ wpc = "returned"
  /\ \E t \in Targets :
       /\ BatchRan(t)
       /\ failed[t] # {}
       /\ \E l \in Labels \ failed[t] : Stdout(t, l) # Collected(t, l)
  /\ \E t \in Targets : BatchRan(t) /\ failed[t] = {}

\* C5: an instance with no address ends with a recorded error and a row
\* that has every label, each with the default value.
C5_NoAddressRowAllDefault ==
  wpc = "returned" =>
    \A t \in Targets :
      instances[t].addrs = <<>> =>
        /\ instances[t].err # NoErr
        /\ resTable[t].Facts = [l \in Labels |-> unkRes]

\* the (user, host) pairs of an address list, users outermost
PairOrder(as) ==
  [k \in 1..(auths * Len(as)) |->
     <<((k - 1) \div Len(as)) + 1, as[((k - 1) % Len(as)) + 1]>>]

\* C6: the dials of an instance are the pairs in user-major order, one at a
\* time; only the last one can have succeeded, so with the k-th pair the
\* first reachable one exactly k dials are made; the connection in use is
\* the one of that last dial.
C6_DialOrder ==
  \A t \in Targets :
    LET as == instances[t].addrs
        n == Len(attempts[t])
    IN /\ n <= auths * Len(as)
       /\ \A j \in 1..n :
            /\ <<attempts[t][j].user, attempts[t][j].host>> = PairOrder(as)[j]
            /\ attempts[t][j].ok => j = n
       /\ conStr[t] # <<>> =>
            /\ n >= 1
            /\ attempts[t][n].ok
            /\ conStr[t] = PairOrder(as)[n]
       /\ pc[t] \in {"open", "wait", "return"} =>
            /\ conStr[t] # <<>>
            /\ client[t] = "open"

\* the last pair of the order is the first reachable one
C6_Witness ==
  \E t \in Targets :
    /\ pc[t] = "wait"
    /\ Len(instances[t].addrs) = MaxAddrs
    /\ Len(attempts[t]) = NumCreds * MaxAddrs
    /\ conStr[t] = <<NumCreds, instances[t].addrs[MaxAddrs]>>


\* C7: with maxSessions >= 1, under fair scheduling, once the goroutines are
\* being dispatched Worker returns its table, and every dispatched goroutine
\* ends, whatever failed for which instance.
C7_WorkerReturns ==
  (wpc = "dispatch" /\ maxSessions >= 1) ~>
    (wpc = "returned" /\ \A t \in Targets : pc[t] = "finished")

\* Worker returned although one instance could not be connected, one lost
\* a command and the slot was contended
C7_Witness ==
  /\ wpc = "returned"
  /\ maxSessions = 1
  /\ Len(instances) = NumTargets
  /\ NumTargets >= 2
  /\ \E t \in Targets : instances[t].err.kind \in {"connect", "session", "start"}
  /\ \E t \in Targets : instances[t].err.kind = "collect"

\* C8: formatResult reads the instances only when every dispatched goroutine
\* has ended, and from then on no instance is written.
C8_JoinInvariant ==
  wpc \in {"format", "returned"} =>
    \A t \in Targets : pc[t] = "finished"

C8_JoinPoint ==
  [][/\ C8_JoinInvariant'
     /\ wpc \in {"format", "returned"} => instances' = instances]_vars

\* formatResult is about to read the results of all the goroutines
C8_Witness ==
  /\ wpc = "format"
  /\ Len(instances) = NumTargets
  /\ \A t \in Targets : instances[t].err # NoErr \/ ~instances[t].facts.isNil

\* The table as a function of the instances and of the backend's answers
\* alone (which dial succeeded, whether a NewSession or Start failed, which
\* commands failed, what the commands wrote).
ExpectedRow(t) ==
  [InstanceId |-> instances[t].id,
   IPs |-> instances[t].addrs,
   Facts |-> IF Connected(t) /\ fault[t].kind = "none"
             THEN [l \in Labels |->
                    IF l \in failed[t] THEN unkRes ELSE Collected(t, l)]
             ELSE EmptyMap]

\* C9: the returned table is determined by the instances, the users, the
\* commands and the backend's answers: no order of admission, of label
\* iteration or of command completion changes it.
C9_TableDetermined ==
  wpc = "returned" => resTable = [t \in Targets |-> ExpectedRow(t)]

\* the goroutines ended in reverse order and the labels of one instance
\* were waited on in reverse order
C9_Witness ==
  /\ wpc = "returned"
  /\ Len(instances) = NumTargets
  /\ NumTargets >= 2
  /\ doneOrder[1] = NumTargets
  /\ \E t \in Targets :
       /\ instances[t].err.kind = "collect"
       /\ Len(instances[t].err.labels) >= 2
       /\ instances[t].err.labels[1] > instances[t].err.labels[2]
  /\ \E t \in Targets : BatchRan(t) /\ failed[t] = {}

\* the command sessions that are open: opened and not yet closed
OpenSessions ==
  {<<t, l>> \in Tasks \X Labels : sess[t][l] \in {"running", "exited"}}

\* C10: at most MAX_SESSIONS command sessions are open over all instances.
C10_OpenSessionsAtMostMaxSessions ==
  Cardinality(OpenSessions) <= maxSessions

\* the per-goroutine state of u and its instance are the same after the step
TaskUntouched(u) ==
  /\ pc'[u] = pc[u]
  /\ client'[u] = client[u]
  /\ closes'[u] = closes[u]
  /\ attempts'[u] = attempts[u]
  /\ sess'[u] = sess[u]
  /\ fault'[u] = fault[u]
  /\ failed'[u] = failed[u]
  /\ facts'[u] = facts[u]
  /\ u \in Targets => instances'[u] = instances[u]

\* C11: when client.NewSession fails for an instance, GetFacts returns at
\* once: the instance holds the session error and no fact, none of its
\* sessions stays open and none is opened later, its row is in the table,
\* and the step changes nothing of any other instance or goroutine.
C11_SessionFailure ==
  /\ [](\A t \in Targets :
         fault[t].kind = "nosession" =>
           /\ Returned(t)
           /\ instances[t].err.kind = "session"
           /\ DOMAIN instances[t].facts.m = {}
           /\ \A l \in Labels : sess[t][l] = "none"
           /\ wpc = "returned" =>
                /\ Len(resTable) = Len(instances)
                /\ resTable[t].InstanceId = instances[t].id)
  /\ [][\A t \in Targets :
         (fault[t].kind = "none" /\ fault'[t].kind = "nosession") =>
           /\ pc[t] = "open"
           /\ pc'[t] = "release"
           /\ \A u \in Tasks \ {t} : TaskUntouched(u)]_vars

\* one instance lost its connection's session, another one was collected
\* in full and both have their row
C11_Witness ==
  /\ wpc = "returned"
  /\ \E t, u \in Targets :
       /\ fault[t].kind = "nosession"
       /\ BatchRan(u)
       /\ failed[u] = {}
       /\ DOMAIN resTable[u].Facts = Labels

\* C12: a connection exists only between a successful dial and the return of
\* GetFacts; it is closed once, by the time the goroutine is about to give
\* its slot back, whether GetFacts ended normally or on a NewSession or
\* Start failure; on the normal path it is closed after every command was
\* waited on; failed dials leave no connection; no session exists, is opened
\* or is waited on once the connection is closed.
C12_ConnectionClosedOnce ==
  /\ [](\A t \in Tasks :
         /\ closes[t] <= 1
         /\ (Returned(t) /\ Connected(t)) =>
              (client[t] = "closed" /\ closes[t] = 1)
         /\ ~Connected(t) => (client[t] = "none" /\ closes[t] = 0)
         /\ client[t] = "open" <=> (Connected(t) /\ ~Returned(t))
         /\ client[t] # "open" => \A l \in Labels : sess[t][l] = "none")
  /\ [][\A t \in Tasks :
         /\ (client[t] = "open" /\ client'[t] # "open") =>
              /\ client'[t] = "closed"
              /\ pc'[t] = "release"
              /\ \/ /\ pc[t] = "return"
                    /\ waited[t] = Labels
                    /\ \A l \in Labels : sess[t][l] = "closed"
                 \/ /\ pc[t] = "open"
                    /\ fault'[t].kind \in {"nosession", "nostart"}
         /\ client[t] = "closed" =>
              /\ client'[t] = "closed"
              /\ sess'[t] = sess[t]
              /\ waited'[t] = waited[t]]_vars

\* all goroutines are through: one connected at its second dial and ran its
\* batch, one lost a command at Start, and each closed its connection
C12_Witness ==
  /\ \A t \in Targets : pc[t] = "finished"
  /\ \E t, u \in Targets :
       /\ BatchRan(t)
       /\ ~attempts[t][1].ok
       /\ closes[t] = 1
       /\ fault[u].kind = "nostart"
       /\ closes[u] = 1

\* C13: when sshAuthSetup fails or FACTS does not parse, Worker returns the
\* error with nothing dispatched: no goroutine was started, no slot of the
\* limiter is taken, nothing was dialled, there is no table and Handler
\* returns the zero Response.
C13_ConfigErrorBeforeDispatch ==
  workerErr # "" =>
    /\ wpc = "failed"
    /\ dispatched = 0
    /\ wg = 0
    /\ limiter = <<>>
    /\ \A t \in Tasks :
         /\ pc[t] = "idle"
         /\ attempts[t] = <<>>
         /\ client[t] = "none"
    /\ resTable = <<>>
    /\ HandlerResponse.StatusCode = 0
    /\ HandlerResponse.Body = <<>>

\* Worker has returned the error of sshAuthSetup or of json.Unmarshal
C13_Witness ==
  /\ wpc = "failed"
  /\ workerErr \in {"auth", "facts"}

\* C14: in a batch without NewSession or Start failure every command is
\* started before the first Wait, so the commands run side by side over the
\* one connection; Wait is called once on each started command, only on
\* commands not waited on before; and the returned facts and the presence
\* of an error depend only on which commands failed, not on the order in
\* which they exited or were waited on.
C14_StartAllThenWaitEach ==
  /\ [](\A t \in Tasks :
         /\ pc[t] \in {"wait", "return"} =>
              /\ client[t] = "open"
              /\ \A l \in Labels : sess[t][l] # "none"
              /\ \A l \in Labels : l \in waited[t] <=> sess[t][l] = "closed"
         /\ pc[t] = "return" => waited[t] = Labels
         /\ pc[t] \notin {"wait", "return"} => waited[t] = {}
         /\ (t \in Targets /\ BatchRan(t)) =>
              /\ instances[t].facts =
                   MapFacts([l \in Labels \ failed[t] |-> Collected(t, l)])
              /\ (instances[t].err.kind = "collect") <=> (failed[t] # {})
              /\ (instances[t].err = NoErr) <=> (failed[t] = {}))
  /\ [][\A t \in Tasks :
         (waited'[t] # waited[t] /\ pc[t] = "wait") =>
           /\ cur[t] \notin waited[t]
           /\ waited'[t] = waited[t] \cup {cur[t]}
           /\ sess[t][cur[t]] = "exited"
           /\ sess'[t][cur[t]] = "closed"]_vars

\* GetFacts waits on the first command while the second one, started
\* after it, has already exited
C14_Witness ==
  \E t \in Tasks :
    /\ pc[t] = "wait"
    /\ cur[t] = 1
    /\ sess[t][1] = "running"
    /\ sess[t][NumLabels] = "exited"
    /\ NumLabels >= 2

\* the outcome slot of instance i holds something other than its zero value
Written(i) == instances[i].err # NoErr \/ ~instances[i].facts.isNil

\* C15: the (facts, err) of an instance is written once, by the step in
\* which its own goroutine's GetFacts returns: it holds the zero value
\* before, a written value from then on, and no other step changes it; that
\* step changes no other instance, and no goroutine's step changes an
\* instance's id or addresses or the credential list.
C15_SlotWrittenOnceByOwner ==
  /\ [](\A i \in Targets : Written(i) <=> Returned(i))
  /\ [][wpc # "setup" =>
         /\ auths' = auths
         /\ \A i \in Targets :
              /\ instances'[i].id = instances[i].id
              /\ instances'[i].addrs = instances[i].addrs
              /\ instances'[i] # instances[i] =>
                   /\ pc[i] \in {"dial", "open", "return"}
                   /\ pc'[i] = "release"
                   /\ \A u \in Targets \ {i} : instances'[u] = instances[u]
              /\ Returned(i) => instances'[i] = instances[i]]_vars

\* one instance has its outcome while another goroutine, still waiting on
\* its commands, has not written its own
C15_Witness ==
  \E i, u \in Targets :
    /\ Returned(i)
    /\ Written(i)
    /\ pc[u] = "wait"
    /\ ~Written(u)

\* C16: the limiter holds as many values as there are goroutines between
\* their send and their receive; a goroutine's send adds one value before
\* its GetFacts starts, its receive takes one value after GetFacts has
\* returned, with or without an error, no other step changes the channel,
\* and the channel is empty once wg.Wait has returned.
C16_GateAccounting ==
  /\ [](/\ Len(limiter) = NumActive
        /\ wpc \in {"format", "returned"} => limiter = <<>>)
  /\ [][/\ \A t \in Tasks :
            /\ (pc[t] = "acquire" /\ pc'[t] # pc[t]) =>
                 /\ pc'[t] = "dial"
                 /\ Len(limiter') = Len(limiter) + 1
            /\ (pc[t] = "release" /\ pc'[t] # pc[t]) =>
                 /\ pc'[t] = "deferred"
                 /\ Len(limiter') = Len(limiter) - 1
            /\ (pc[t] \in {"dial", "open", "wait", "return"}
                  /\ pc'[t] # pc[t]) =>
                 /\ pc'[t] \in {"open", "wait", "return", "release"}
                 /\ limiter' = limiter
        /\ limiter' # limiter =>
             \E t \in Tasks :
               pc[t] \in {"acquire", "release"} /\ pc'[t] # pc[t]]_vars

\* a goroutine whose GetFacts returned an error has given a slot back,
\* taking the other goroutine's job id out of the channel: its own id is
\* what the channel holds while the other one is still at work
C16_Witness ==
  \E t, u \in Targets :
    /\ limiter = <<u>>
    /\ pc[u] \in {"deferred", "finished"}
    /\ instances[u].err # NoErr
    /\ Active(t)

\* the (user, host) pairs GetFacts has dialled for t
AttemptedPairs(t) ==
  {<<attempts[t][j].user, attempts[t][j].host>> : j \in 1..Len(attempts[t])}

\* the (user, host) pairs that can be read off an error's message
NamedPairs(e) ==
  {<<e.users[j], e.addrs[k]>> : j \in 1..Len(e.users), k \in 1..Len(e.addrs)}

\* GetFacts has returned for t, which has addresses, none of them reached
\* under any user
AllPairsFailed(t) ==
  /\ Returned(t)
  /\ Len(instances[t].addrs) > 0
  /\ ~Connected(t)

\* every pair of a user and an address of t was dialled once, in vain, and
\* nothing else was dialled; no session was opened and t has no fact
EachPairOnceNoSession(t) ==
  /\ Len(attempts[t]) = auths * Len(instances[t].addrs)
  /\ \A u \in 1..auths :
       \A k \in 1..Len(instances[t].addrs) :
         Cardinality({j \in 1..Len(attempts[t]) :
                        attempts[t][j] = [user |-> u,
                                          host |-> instances[t].addrs[k],
                                          ok |-> FALSE]}) = 1
  /\ client[t] = "none"
  /\ fault[t].kind = "none"
  /\ \A l \in Labels : sess[t][l] = "none"
  /\ DOMAIN instances[t].facts.m = {}

\* C17 as the claim has it: when every pair failed, each pair was dialled
\* once, no session was opened, the facts are empty and the connection
\* error names every pair that was dialled.
C17_ErrorNamesAllPairs ==
  \A t \in Targets :
    AllPairsFailed(t) =>
      /\ EachPairOnceNoSession(t)
      /\ instances[t].err.kind = "connect"
      /\ AttemptedPairs(t) \subseteq NamedPairs(instances[t].err)

\* C17: when every pair failed, each pair was dialled once, no session was
\* opened, the facts are empty and the connection error names the
\* instance's address list and no user.
C17_ErrorNamesAddresses ==
  \A t \in Targets :
    AllPairsFailed(t) =>
      /\ EachPairOnceNoSession(t)
      /\ instances[t].err.kind = "connect"
      /\ instances[t].err.addrs = instances[t].addrs
      /\ instances[t].err.users = <<>>

\* every user was tried at every address of an instance with the most
\* addresses, and the connection error is stored
C17_Witness ==
  \E t \in Targets :
    /\ AllPairsFailed(t)
    /\ Len(attempts[t]) = NumCreds * MaxAddrs
    /\ instances[t].err.kind = "connect"

\* C18: GetFacts called with no address or with no user dials nothing and
\* opens no connection and no session; all it does is return, without
\* facts, the error "No hosts to get facts" for an empty address list and
\* the connection error otherwise.
C18_EmptyInputFailsAtOnce ==
  \A t \in Targets :
    (Len(instances[t].addrs) = 0 \/ auths = 0) =>
      /\ attempts[t] = <<>>
      /\ client[t] = "none"
      /\ closes[t] = 0
      /\ fault[t].kind = "none"
      /\ \A l \in Labels : sess[t][l] = "none"
      /\ pc[t] \in {"dial", "release"}
      /\ pc[t] = "dial" => ~Written(t)
      /\ pc[t] = "release" =>
           /\ instances[t].facts.isNil
           /\ instances[t].err.kind =
                IF Len(instances[t].addrs) = 0 THEN "nohosts" ELSE "connect"

\* GetFacts has returned the connection error for an instance with
\* addresses and no user to try
C18_Witness ==
  \E t \in Targets :
    /\ auths = 0
    /\ Len(instances[t].addrs) = MaxAddrs
    /\ pc[t] = "release"
    /\ instances[t].err.kind = "connect"

\* C19: with maxSessions = 0 and at least one instance the limiter never
\* holds a value and no send on it can proceed: every goroutine stays at
\* its send, nothing is dialled, no instance's outcome is written, and
\* Worker stays in front of wg.Wait, never making a table or returning.
C19_ZeroCapacityBlocks ==
  (wpc \notin {"setup", "failed"} /\ maxSessions = 0 /\ Len(instances) >= 1)
    =>
      /\ wpc = "dispatch"
      /\ wg = dispatched
      /\ limiter = <<>>
      /\ resTable = <<>>
      /\ \A t \in Targets :
           /\ pc[t] \in {"idle", "acquire"}
           /\ pc[t] = "acquire" <=> t <= dispatched
           /\ ~ENABLED Acquire(t)
           /\ attempts[t] = <<>>
           /\ ~Written(t)
      /\ ~ENABLED WgWait

\* every goroutine was started and all of them are stuck at their send
C19_Witness ==
  /\ maxSessions = 0
  /\ Len(instances) = NumTargets
  /\ dispatched = NumTargets
  /\ \A t \in Targets : pc[t] = "acquire"

====
